---- MODULE Spec2Model ----
(***************************************************************************)
(* Model of the daily supervision pipeline orchestrator                    *)
(* (scripts_notebooks/prod/run_pipeline.py) and of its Extract phase       *)
(* (scripts_notebooks/prod/pull_data.py).                                  *)
(*                                                                         *)
(* Python values are represented as follows:                               *)
(*   - an Optional[str] is a sequence: None is << >>, the string s is <<s>>*)
(*   - a datetime is a record [year, month, day] (the time of day is never *)
(*     used by the code: every use goes through .day, .month, .year,       *)
(*     strftime('%Y-%m-%d') or an addition of whole days)                  *)
(*   - a 'YYYY-MM-DD' string is a real string, built by strftime           *)
(***************************************************************************)
EXTENDS Integers, Sequences, FiniteSets, TLC

(***************************************************************************)
(* Bounds of the model.                                                    *)
(***************************************************************************)
\* number of calendar years, from 2024 (a leap year) on, the clock may start in
NumYears == 2
\* number of midnights that may pass during and between the executions
MaxTicks == 1
\* number of entries of the archive directory before the first execution
MaxListing == 2
\* number of executions (processes started one after the other)
MaxExecutions == 2

(***************************************************************************)
(* Python values.                                                          *)
(***************************************************************************)
None == << >>
Str(s) == << s >>
IsNone(o) == o = None
Val(o) == o[1]
\* Python truthiness of an Optional[str]: None and '' are falsy.
Truthy(o) == o # None /\ Val(o) # ""

(***************************************************************************)
(* datetime arithmetic.                                                    *)
(***************************************************************************)
IsLeap(y) == (y % 4 = 0) /\ ((y % 100 # 0) \/ (y % 400 = 0))

DaysInMonth(y, m) ==
    IF m = 2 THEN (IF IsLeap(y) THEN 29 ELSE 28)
    ELSE IF m \in {4, 6, 9, 11} THEN 30 ELSE 31

\* datetime(y, m, d)
datetime(y, m, d) == [year |-> y, month |-> m, day |-> d]

\* dt + timedelta(days=1)
PlusOneDay(dt) ==
    IF dt.day < DaysInMonth(dt.year, dt.month)
    THEN datetime(dt.year, dt.month, dt.day + 1)
    ELSE IF dt.month < 12
         THEN datetime(dt.year, dt.month + 1, 1)
         ELSE datetime(dt.year + 1, 1, 1)

\* dt - timedelta(days=1)
MinusOneDay(dt) ==
    IF dt.day > 1
    THEN datetime(dt.year, dt.month, dt.day - 1)
    ELSE IF dt.month > 1
         THEN datetime(dt.year, dt.month - 1, DaysInMonth(dt.year, dt.month - 1))
         ELSE datetime(dt.year - 1, 12, 31)

\* '%02d' of a month or day number
Pad2(n) == IF n < 10 THEN "0" \o ToString(n) ELSE ToString(n)

\* dt.strftime('%Y-%m-%d') (years of the model have four digits)
strftime(dt) == ToString(dt.year) \o "-" \o Pad2(dt.month) \o "-" \o Pad2(dt.day)

MonthNames == << "January", "February", "March", "April", "May", "June",
                 "July", "August", "September", "October", "November",
                 "December" >>

\* dt.strftime('%B')
MonthName(dt) == MonthNames[dt.month]

\* int(s) for a string of decimal digits; -1 stands for ValueError
RECURSIVE ParseInt(_)
ParseInt(s) ==
    IF Len(s) = 0 THEN -1
    ELSE LET c == SubSeq(s, Len(s), Len(s))
             ok == \E k \in 0..9 : ToString(k) = c
             v == CHOOSE k \in 0..9 : ToString(k) = c
         IN  IF ~ok THEN -1
             ELSE IF Len(s) = 1 THEN v
             ELSE LET r == ParseInt(SubSeq(s, 1, Len(s) - 1))
                  IN  IF r < 0 THEN -1 ELSE 10 * r + v

\* datetime.strptime(s, '%Y-%m-%d') for the zero-padded form strftime
\* produces; None stands for ValueError
strptime(s) ==
    IF Len(s) # 10 \/ SubSeq(s, 5, 5) # "-" \/ SubSeq(s, 8, 8) # "-" THEN None
    ELSE LET y == ParseInt(SubSeq(s, 1, 4))
             m == ParseInt(SubSeq(s, 6, 7))
             d == ParseInt(SubSeq(s, 9, 10))
         IN  IF y < 1 \/ m < 1 \/ m > 12 \/ d < 1 THEN None
             ELSE IF d > DaysInMonth(y, m) THEN None
             ELSE << datetime(y, m, d) >>

\* s.startswith(p)
StartsWith(s, p) == Len(s) >= Len(p) /\ SubSeq(s, 1, Len(p)) = p

(***************************************************************************)
(* run_pipeline.py: get_previous_month_last_day, with `now` the value      *)
(* datetime.now() returned inside the function.                            *)
(***************************************************************************)
\* a bug: February always has 28 days
get_previous_month_last_day_no_leap(now) ==
    LET prev_month == IF now.month = 1 THEN 12 ELSE now.month - 1
        prev_year == IF now.month = 1 THEN now.year - 1 ELSE now.year
        last_day == IF prev_month = 12
                    THEN MinusOneDay(datetime(prev_year + 1, 1, 1)).day
                    ELSE IF prev_month = 2 THEN 28
                    ELSE MinusOneDay(datetime(prev_year, prev_month + 1, 1)).day
    IN  strftime(datetime(prev_year, prev_month, last_day))

get_previous_month_last_day(now) ==
    LET prev_month == IF now.month = 1 THEN 12 ELSE now.month - 1
        prev_year == IF now.month = 1 THEN now.year - 1 ELSE now.year
        last_day == IF prev_month = 12
                    THEN MinusOneDay(datetime(prev_year + 1, 1, 1)).day
                    ELSE MinusOneDay(datetime(prev_year, prev_month + 1, 1)).day
    IN  strftime(datetime(prev_year, prev_month, last_day))

(***************************************************************************)
(* run_pipeline.py: find_archived_file_from_date.                          *)
(* dir_state is "ok" (the folder exists and can be listed), "missing"      *)
(* (os.path.exists is false) or "unreadable" (os.listdir raises); listing  *)
(* is what os.listdir returns, in its order.                               *)
(***************************************************************************)
ARCHIVE_FOLDER == "../../data/transformed_supervision_daily/archived"
NAME_PREFIX == "daily_supervision_hours_transformed_"

\* os.path.join(folder, filename)
PathJoin(folder, filename) == folder \o "/" \o filename

\* the test of one directory entry (the if / elif of the loop body)
ArchiveEntryMatches(filename, target_date) ==
    LET target_dt == strptime(target_date)
        month_name == IF target_dt = None THEN None ELSE Str(MonthName(Val(target_dt)))
        new_pattern == NAME_PREFIX \o target_date \o "_FINAL_" \o Val(month_name) \o ".xlsx"
        updated_pattern_prefix ==
            NAME_PREFIX \o target_date \o "_FINAL_" \o Val(month_name) \o "_updated_"
        old_pattern == NAME_PREFIX \o target_date \o ".xlsx"
        old_updated_prefix == NAME_PREFIX \o target_date \o "_updated_"
    IN  \/ /\ month_name # None
           /\ (filename = new_pattern \/ StartsWith(filename, updated_pattern_prefix))
        \/ filename = old_pattern
        \/ StartsWith(filename, old_updated_prefix)

\* a bug: the scan goes on after a match, so that the last match is returned
find_archived_file_last_match(target_date, dir_state, listing) ==
    IF dir_state = "missing" THEN None
    ELSE IF dir_state = "unreadable" THEN None
    ELSE LET hits == { i \in 1..Len(listing) : ArchiveEntryMatches(listing[i], target_date) }
         IN  IF hits = {} THEN None
             ELSE LET last == CHOOSE i \in hits : \A j \in hits : i >= j
                  IN  Str(PathJoin(ARCHIVE_FOLDER, listing[last]))

\* a bug: a folder that is missing or cannot be listed counts as holding the file
find_archived_file_assumed(target_date, dir_state, listing) ==
    IF dir_state = "missing" \/ dir_state = "unreadable"
    THEN Str(PathJoin(ARCHIVE_FOLDER, NAME_PREFIX \o target_date \o ".xlsx"))
    ELSE LET hits == { i \in 1..Len(listing) : ArchiveEntryMatches(listing[i], target_date) }
         IN  IF hits = {} THEN None
             ELSE LET first == CHOOSE i \in hits : \A j \in hits : i <= j
                  IN  Str(PathJoin(ARCHIVE_FOLDER, listing[first]))

find_archived_file_from_date(target_date, dir_state, listing) ==
    IF dir_state = "missing" THEN None
    ELSE IF dir_state = "unreadable" THEN None
    ELSE LET hits == { i \in 1..Len(listing) : ArchiveEntryMatches(listing[i], target_date) }
         IN  IF hits = {} THEN None
             ELSE LET first == CHOOSE i \in hits : \A j \in hits : i <= j
                  IN  Str(PathJoin(ARCHIVE_FOLDER, listing[first]))

(***************************************************************************)
(* pull_data.py: get_db_connection.  can_connect is the set of indices of  *)
(* drivers_to_try for which pyodbc.connect succeeds.  The result records   *)
(* which configurations were tried and which one connected (0: raised).    *)
(***************************************************************************)
drivers_to_try ==
    << [driver |-> "ODBC Driver 17 for SQL Server", extra |-> ""],
       [driver |-> "ODBC Driver 18 for SQL Server", extra |-> "TrustServerCertificate=yes"],
       [driver |-> "SQL Server", extra |-> ""],
       [driver |-> "ODBC Driver 18 for SQL Server",
        extra |-> "TrustServerCertificate=yes;Encrypt=no"] >>

\* the except branch: re-raise when the driver's name is the last entry's name
ReraiseOnFailure(i) == drivers_to_try[i].driver = drivers_to_try[Len(drivers_to_try)].driver

RECURSIVE ConnectLoop(_, _, _)
ConnectLoop(i, can_connect, tried) ==
    IF i > Len(drivers_to_try)
    THEN [connected |-> 0, tried |-> tried]
    ELSE IF i \in can_connect
         THEN [connected |-> i, tried |-> Append(tried, i)]
         ELSE IF ReraiseOnFailure(i)
              THEN [connected |-> 0, tried |-> Append(tried, i)]
              ELSE ConnectLoop(i + 1, can_connect, Append(tried, i))

get_db_connection(can_connect) == ConnectLoop(1, can_connect, << >>)

(***************************************************************************)
(* run_pipeline.py: the error message run_pipeline_phases keeps of an      *)
(* exception e (cause is str(e)).                                          *)
(***************************************************************************)
TruncateLimit == 500

\* a bug: a message of exactly 500 characters is cut as well
ErrorMessageOfCutsAtLimit(cause) ==
    IF Len(cause) >= TruncateLimit
    THEN SubSeq(cause, 1, TruncateLimit) \o "... (truncated)"
    ELSE cause

ErrorMessageOf(cause) ==
    IF Len(cause) > TruncateLimit
    THEN SubSeq(cause, 1, TruncateLimit) \o "... (truncated)"
    ELSE cause

\* a bug: the previous month of January stays in the same year
ResolveWindowNoYearWrap(start_date, end_date, now) ==
    LET prev_month == IF now.month = 1 THEN 12 ELSE now.month - 1
        sd == IF Truthy(start_date) THEN start_date
              ELSE IF now.day <= 5
                   THEN Str(strftime(datetime(now.year, prev_month, 1)))
                   ELSE Str(strftime(datetime(now.year, now.month, 1)))
        ed1 == IF ~Truthy(start_date) /\ now.day <= 5 /\ end_date = None
               THEN Str(strftime(datetime(now.year, now.month, 1)))
               ELSE end_date
        ed == IF ed1 = None THEN Str(strftime(PlusOneDay(now))) ELSE ed1
    IN  [start_date |-> sd, end_date |-> ed]

\* a bug: the default end date is today, so that today's entries are left out
ResolveWindowEndsToday(start_date, end_date, now) ==
    LET prev_month == IF now.month = 1 THEN 12 ELSE now.month - 1
        prev_year == IF now.month = 1 THEN now.year - 1 ELSE now.year
        sd == IF Truthy(start_date) THEN start_date
              ELSE IF now.day <= 5
                   THEN Str(strftime(datetime(prev_year, prev_month, 1)))
                   ELSE Str(strftime(datetime(now.year, now.month, 1)))
        ed1 == IF ~Truthy(start_date) /\ now.day <= 5 /\ end_date = None
               THEN Str(strftime(datetime(now.year, now.month, 1)))
               ELSE end_date
        ed == IF ed1 = None THEN Str(strftime(now)) ELSE ed1
    IN  [start_date |-> sd, end_date |-> ed]

\* a bug: on the days 1 to 5 the previous month replaces a start date given
ResolveWindowPrevMonthFirst(start_date, end_date, now) ==
    LET prev_month == IF now.month = 1 THEN 12 ELSE now.month - 1
        prev_year == IF now.month = 1 THEN now.year - 1 ELSE now.year
        sd == IF now.day <= 5
              THEN Str(strftime(datetime(prev_year, prev_month, 1)))
              ELSE IF Truthy(start_date) THEN start_date
                   ELSE Str(strftime(datetime(now.year, now.month, 1)))
        ed1 == IF now.day <= 5 /\ end_date = None
               THEN Str(strftime(datetime(now.year, now.month, 1)))
               ELSE end_date
        ed == IF ed1 = None THEN Str(strftime(PlusOneDay(now))) ELSE ed1
    IN  [start_date |-> sd, end_date |-> ed]

(***************************************************************************)
(* pull_data.py: the date window pull_data_main resolves (lines 225-260),  *)
(* from its arguments and the value `now` of its own datetime.now().       *)
(***************************************************************************)
ResolveWindow(start_date, end_date, now) ==
    LET prev_month == IF now.month = 1 THEN 12 ELSE now.month - 1
        prev_year == IF now.month = 1 THEN now.year - 1 ELSE now.year
        sd == IF Truthy(start_date) THEN start_date
              ELSE IF now.day <= 5
                   THEN Str(strftime(datetime(prev_year, prev_month, 1)))
                   ELSE Str(strftime(datetime(now.year, now.month, 1)))
        ed1 == IF ~Truthy(start_date) /\ now.day <= 5 /\ end_date = None
               THEN Str(strftime(datetime(now.year, now.month, 1)))
               ELSE end_date
        ed == IF ed1 = None THEN Str(strftime(PlusOneDay(now))) ELSE ed1
    IN  [start_date |-> sd, end_date |-> ed]

\* a bug: the names of the output files do not hold the date
RawPullFilesUndated(today_str) ==
    << "../../data/raw_pulls/direct_services.csv",
      "../../data/raw_pulls/supervision_services.csv",
      "../../data/raw_pulls/bacb_supervision_hours.csv",
      "../../data/raw_pulls/employee_locations.csv" >>

\* the four output files of pull_data_main (lines 289-312), in the order written
RawPullFiles(today_str) ==
    << "../../data/raw_pulls/direct_services_" \o today_str \o ".csv",
      "../../data/raw_pulls/supervision_services_" \o today_str \o ".csv",
      "../../data/raw_pulls/bacb_supervision_hours_" \o today_str \o ".csv",
      "../../data/raw_pulls/employee_locations_" \o today_str \o ".csv" >>

(***************************************************************************)
(* run_pipeline.py: the escaping of the error message handed to            *)
(* send_email.py (line 404).                                               *)
(***************************************************************************)
\* the three replace calls, character by character (by halves of the string)
RECURSIVE escaped_error(_)
escaped_error(msg) ==
    IF Len(msg) = 0 THEN ""
    ELSE IF Len(msg) = 1
         THEN (IF msg = "\n" \/ msg = "\r" THEN " " ELSE IF msg = "\"" THEN "'" ELSE msg)
         ELSE LET h == Len(msg) \div 2
              IN  escaped_error(SubSeq(msg, 1, h)) \o escaped_error(SubSeq(msg, h + 1, Len(msg)))

\* email_cmd after the executable and the script: the arguments of send_email.py
email_cmd(overall_exit_code, overall_error_message) ==
    IF Truthy(overall_error_message)
    THEN << ToString(overall_exit_code), escaped_error(Val(overall_error_message)) >>
    ELSE << ToString(overall_exit_code) >>

(***************************************************************************)
(* The inputs of the model.                                                *)
(***************************************************************************)
Years == 2024..(2024 + NumYears - 1)
StartMonths == {1, 2, 3, 6, 12}
ExampleDates == { datetime(2025, 1, 3), datetime(2025, 3, 4) }
StartDates ==
    { datetime(y, m, d) : y \in Years, m \in StartMonths, d \in {1, 5, 6, 15} }
    \cup { datetime(y, m, DaysInMonth(y, m)) : y \in Years, m \in StartMonths }
    \cup ExampleDates

\* --start-date values of the command line (type=str: any string is accepted):
\* none, or a date that is past on some start dates of the model and still to
\* come on others
ArgStartDates == { None, Str("2024-11-20") }

\* the environment after load_dotenv(): the three connection parameters
FullEnv == [CR_DWH_SERVER |-> Str("dwh"), CR_UN |-> Str("user"), CR_PW |-> Str("pw")]
Envs == { FullEnv,
          [FullEnv EXCEPT !.CR_DWH_SERVER = None],
          [FullEnv EXCEPT !.CR_UN = None],
          [FullEnv EXCEPT !.CR_PW = None] }
CredentialsMissing(e) == e.CR_DWH_SERVER = None \/ e.CR_UN = None \/ e.CR_PW = None

\* str(e) of the exceptions the collaborators raise
RECURSIVE Repeat(_, _)
Repeat(s, n) ==
    IF n = 0 THEN ""
    ELSE IF n = 1 THEN s
    ELSE LET h == Repeat(s, n \div 2)
         IN  IF n % 2 = 1 THEN h \o h \o s ELSE h \o h
LongCause == Repeat("x", TruncateLimit + 1)
LimitCause == Repeat("y", TruncateLimit)
Causes == { "", "query \"q\" failed\nretry", LimitCause, LongCause }

\* names an archive directory may hold for the target date d ('YYYY-MM-DD')
ArchiveNames(d) ==
    LET dt == Val(strptime(d))
    IN  { NAME_PREFIX \o d \o "_FINAL_" \o MonthName(dt) \o ".xlsx",
          NAME_PREFIX \o d \o "_FINAL_" \o MonthName(dt) \o "_updated_" \o
              strftime(PlusOneDay(PlusOneDay(dt))) \o ".xlsx",
          NAME_PREFIX \o d \o ".xlsx",
          NAME_PREFIX \o d \o "_updated_" \o strftime(PlusOneDay(PlusOneDay(dt))) \o ".xlsx",
          NAME_PREFIX \o strftime(MinusOneDay(dt)) \o ".xlsx" }

\* directory listings: sequences without repetition of at most MaxListing names
Listings(names) ==
    { l \in UNION { [1..n -> names] : n \in 0..MaxListing } :
        \A i, j \in 1..Len(l) : i # j => l[i] # l[j] }

(***************************************************************************)
(* The state.                                                              *)
(***************************************************************************)
VARIABLES
    clock,            \* the calendar date datetime.now() returns
    ticks,            \* midnights passed since the process started
    entry,            \* the script executed: "run_pipeline" or "pull_data"
    args_start_date,  \* args.start_date
    env,              \* the connection parameters of the environment
    faults,           \* whether the collaborators (database, file system, phases
                      \* 2 to 4, send_email.py) may fail during this execution
    archive_state,    \* the archive folder: "ok", "missing" or "unreadable"
    archive_listing,  \* os.listdir of the archive folder
    writes,           \* the files written so far, in order: who wrote which path
    executions,       \* the number of the execution (process) running
    pc,               \* position of the process
    stage,            \* "A" (previous month), "B" (current month), "cli", "none"
    main,             \* the local variables of run_pipeline.main
    runs,             \* the calls of run_pipeline_phases, in order, with their locals
    pull,             \* the local variables of the running pull_data_main
    conns,            \* the database connections opened so far: "open" or "closed"
    raw_pulls,        \* the files of ../../data/raw_pulls: [path, content]
    emails,           \* the invocations of send_email.py
    exit_status       \* how the process ended

vars == << clock, ticks, entry, args_start_date, env, faults, archive_state, archive_listing,
           writes, executions,
           pc, stage, main, runs, pull, conns, raw_pulls, emails, exit_status >>

inputs == << entry, args_start_date, env, faults >>
archive == << archive_state, archive_listing >>

NoDate == datetime(0, 0, 0)

MainLocals0 ==
    [ now |-> NoDate, current_day |-> 0, today_str |-> None,
      overall_exit_code |-> 0, overall_error_message |-> None,
      run_previous_month |-> FALSE, prev_month_last_day |-> None,
      archived_file |-> None, file_exists |-> FALSE,
      exit_code |-> 0, error_message |-> None ]

PullLocals0 ==
    [ now |-> NoDate, today_str |-> None, start_date |-> None, end_date |-> None,
      server |-> None, username |-> None, password |-> None,
      tried |-> << >>, conn |-> 0, q |-> 0,
      direct_df |-> None, supervision_df |-> None, bacb_df |-> None,
      employee_locations_df |-> None ]

\* the locals of a call run_pipeline_phases(start_date, end_date, save_to_archive,
\* archive_date, archive_file_exists) at its first statement (lines 198-203)
RunLocals0(st, start_date, end_date, save_to_archive, archive_date, archive_file_exists) ==
    [ stage |-> st, start_date |-> start_date, end_date |-> end_date,
      save_to_archive |-> save_to_archive, archive_date |-> archive_date,
      archive_file_exists |-> archive_file_exists,
      exit_code |-> 0, error_message |-> None, final_df |-> None,
      direct_df |-> None, supervision_df |-> None, bacb_df |-> None,
      employee_locations_df |-> None, joined_df |-> None, transformed_df |-> None,
      window |-> None, today_str |-> None,
      invoked |-> << >>, raised_in |-> None, cause |-> None, returned |-> FALSE ]

Cur == runs[Len(runs)]

\* The executions explored: every start date with healthy collaborators, the
\* archive folders on a few dates of the first five days of a month, and
\* failing collaborators or missing connection parameters on a few dates.
ArchiveDates == { datetime(2025, 3, 4), datetime(2025, 1, 3), datetime(2024, 3, 5) }
FaultDates == { datetime(2025, 1, 3), datetime(2025, 6, 15) }

InitInputs ==
    \/ /\ clock \in StartDates
       /\ entry \in {"run_pipeline", "pull_data"}
       /\ args_start_date \in ArgStartDates
       /\ env = FullEnv
       /\ faults = FALSE
       /\ archive_state = "missing"
       /\ archive_listing = << >>
    \/ /\ clock \in ArchiveDates
       /\ entry = "run_pipeline"
       /\ args_start_date = None
       /\ env = FullEnv
       /\ faults = FALSE
       /\ archive_state \in {"ok", "unreadable"}
       /\ IF archive_state = "ok"
          THEN archive_listing \in
                   Listings(ArchiveNames(strftime(MinusOneDay(datetime(clock.year, clock.month, 1)))))
          ELSE archive_listing = << >>
    \/ /\ clock \in FaultDates
       /\ entry \in {"run_pipeline", "pull_data"}
       /\ args_start_date = None
       /\ env \in Envs
       /\ faults = TRUE
       /\ archive_state = "missing"
       /\ archive_listing = << >>

Init ==
    /\ InitInputs
    /\ ticks = 0
    /\ pc = IF entry = "run_pipeline" THEN "main" ELSE "cli"
    /\ stage = "none"
    /\ main = MainLocals0
    /\ runs = << >>
    /\ writes = << >>
    /\ executions = 1
    /\ pull = PullLocals0
    /\ conns = << >>
    /\ raw_pulls = {}
    /\ emails = << >>
    /\ exit_status = "running"

(***************************************************************************)
(* The clock: midnight passes while the process runs.                      *)
(***************************************************************************)
Tick ==
    /\ pc # "done"
    /\ ticks < MaxTicks
    /\ clock' = PlusOneDay(clock)
    /\ ticks' = ticks + 1
    /\ UNCHANGED << inputs, archive, writes, executions, pc, stage, main, runs, pull, conns, raw_pulls, emails,
                    exit_status >>

(***************************************************************************)
(* run_pipeline.py: run_pipeline_phases.                                   *)
(***************************************************************************)
\* the statements of the try block, in order (lines 212, 221, 230, 239)
PhaseOrder == << "Extract", "Join", "Transform", "Merge" >>

PcOfPhase(phase) ==
    CASE phase = "Extract" -> "extract"
      [] phase = "Join" -> "join"
      [] phase = "Transform" -> "transform"
      [] phase = "Merge" -> "merge"

\* a bug: the call of transform_data_main is skipped
AfterPhaseSkipsTransform(i) ==
    IF i = 1 THEN "join" ELSE IF i = 2 THEN "merge" ELSE "run_return"

\* where control goes when the i-th statement of the try block has returned
AfterPhase(i) == IF i < Len(PhaseOrder) THEN PcOfPhase(PhaseOrder[i + 1]) ELSE "run_return"

\* a bug: the try block encloses the call of pull_data_main only
InTryBlockExtractOnly(phase) == phase = "Extract"

\* the try block (lines 205-253) encloses the calls of all four phases
InTryBlock(phase) == phase \in { PhaseOrder[i] : i \in 1..Len(PhaseOrder) }

\* a bug: the handler keeps the message and forgets the exit code
ExceptHandlerKeepsExitCode(r, phase, cause) ==
    [ r EXCEPT !.error_message = Str(ErrorMessageOf(cause)) ]

\* the except Exception handler (lines 253-266) applied to the locals r
ExceptHandler(r, phase, cause) ==
    [ r EXCEPT !.exit_code = 1,
               !.error_message = Str(ErrorMessageOf(cause)) ]

\* the record of the exception: the phase that raised it and its str(e)
Raised(r, phase, cause) == [ r EXCEPT !.raised_in = Str(phase), !.cause = Str(cause) ]

\* an exception with str(e) = cause leaves the running phase; base is the
\* value of runs when it is raised
Raise(base, phase, cause) ==
    IF stage = "cli"
    THEN \* pull_data.main logs and re-raises (lines 336-338)
         /\ pc' = "done"
         /\ exit_status' = "uncaught exception"
         /\ runs' = base
    ELSE IF InTryBlock(phase)
    THEN /\ runs' = [base EXCEPT ![Len(base)] =
                                     ExceptHandler(Raised(@, phase, cause), phase, cause)]
         /\ pc' = "run_return"
         /\ exit_status' = exit_status
    ELSE \* the exception leaves run_pipeline_phases and main
         /\ runs' = [base EXCEPT ![Len(base)] = Raised(@, phase, cause)]
         /\ pc' = "done"
         /\ exit_status' = "uncaught exception"

\* the phase is called: the log of the calls of this run
Invoke(phase) == [runs EXCEPT ![Len(runs)].invoked = Append(@, phase)]

(***************************************************************************)
(* pull_data.py: pull_data_main.                                           *)
(***************************************************************************)
QueryNames == << "direct_df", "supervision_df", "bacb_df", "employee_locations_df" >>

\* lines 212 and 214-265 (from run_pipeline_phases) or 334 and 214-265 (from
\* pull_data.main): the call, the environment, the clock and the date window
PullResolve ==
    /\ pc = "extract"
    /\ LET a == IF stage = "cli"
                THEN [start_date |-> args_start_date, end_date |-> None]
                ELSE [start_date |-> Cur.start_date, end_date |-> Cur.end_date]
           w == ResolveWindow(a.start_date, a.end_date, clock)
       IN  /\ pull' = [ PullLocals0 EXCEPT
                          !.server = env.CR_DWH_SERVER,
                          !.username = env.CR_UN,
                          !.password = env.CR_PW,
                          !.now = clock,
                          !.today_str = Str(strftime(clock)),
                          !.start_date = w.start_date,
                          !.end_date = w.end_date ]
           /\ runs' = IF stage = "cli" THEN runs
                      ELSE [runs EXCEPT ![Len(runs)].invoked = Append(@, "Extract"),
                                        ![Len(runs)].window = << w >>,
                                        ![Len(runs)].today_str = Str(strftime(clock))]
    /\ pc' = "pull_connect"
    /\ UNCHANGED << clock, ticks, inputs, archive, writes, executions, stage, main, conns, raw_pulls, emails,
                    exit_status >>

\* the locals of pull_data_main are gone when it is left; the configurations
\* a failed get_db_connection tried are kept for the record
PullLeft(tried) == [PullLocals0 EXCEPT !.tried = tried]

\* line 268: get_db_connection.  Without one of the three connection
\* parameters no driver configuration can log in.
PullConnect ==
    /\ pc = "pull_connect"
    /\ \E can_connect \in SUBSET (1..Len(drivers_to_try)) :
         /\ CredentialsMissing([CR_DWH_SERVER |-> pull.server, CR_UN |-> pull.username,
                                CR_PW |-> pull.password]) => can_connect = {}
         /\ ~faults => can_connect = 1..Len(drivers_to_try)
         /\ LET res == get_db_connection(can_connect)
            IN  IF res.connected # 0
                THEN /\ conns' = Append(conns, "open")
                     /\ pull' = [pull EXCEPT !.tried = res.tried,
                                             !.conn = Len(conns) + 1,
                                             !.q = 1]
                     /\ pc' = "pull_query"
                     /\ UNCHANGED << runs, exit_status >>
                ELSE /\ \E cause \in Causes : Raise(runs, "Extract", cause)
                     /\ pull' = PullLeft(res.tried)
                     /\ conns' = conns
    /\ UNCHANGED << clock, ticks, inputs, archive, writes, executions, stage, main, raw_pulls, emails >>

\* the dataset a query returns
QueryResult(name) ==
    [ kind |-> name, run |-> Len(runs),
      start_date |-> IF name = "employee_locations_df" THEN None ELSE pull.start_date,
      end_date |-> IF name = "employee_locations_df" THEN None ELSE pull.end_date ]

\* lines 270-284: the four queries, one after the other
PullQuery ==
    /\ pc = "pull_query"
    /\ \/ /\ pull' = [pull EXCEPT ![QueryNames[pull.q]] = << QueryResult(QueryNames[pull.q]) >>,
                                   !.q = pull.q + 1]
          /\ pc' = IF pull.q = Len(QueryNames) THEN "pull_close" ELSE "pull_query"
          /\ UNCHANGED << runs, exit_status >>
       \/ /\ faults
          /\ \E cause \in Causes : Raise(runs, "Extract", cause)
          /\ pull' = PullLocals0
    /\ UNCHANGED << clock, ticks, inputs, archive, writes, executions, stage, main, conns, raw_pulls, emails >>

\* a file is written (created or overwritten)
WriteFile(fs, path, content) ==
    { f \in fs : f.path # path } \cup { [path |-> path, content |-> content] }

\* the first k files of the sequence paths are written, in order
RECURSIVE WriteFirst(_, _, _, _)
WriteFirst(fs, paths, k, content) ==
    IF k = 0 THEN fs
    ELSE WriteFile(WriteFirst(fs, paths, k - 1, content), paths[k], content)

\* the record of a file written: by which stage of which execution, under
\* which date, and whether the path was there before
WriteRecord(path, existed, today_str) ==
    [ execution |-> executions, stage |-> stage, path |-> path, existed |-> existed,
      today_str |-> today_str ]

\* the records of the first k files of the sequence paths; present holds the
\* paths there before
RECURSIVE LogFirst(_, _, _, _, _)
LogFirst(log, present, paths, k, today_str) ==
    IF k = 0 THEN log
    ELSE Append(LogFirst(log, present, paths, k - 1, today_str),
                WriteRecord(paths[k], paths[k] \in present, today_str))

\* lines 286-319: conn.close(), the four files, the return.  A write may fail,
\* after the files before it were written.
PullCloseSave ==
    /\ pc = "pull_close"
    /\ conns' = [conns EXCEPT ![pull.conn] = "closed"]
    /\ LET paths == RawPullFiles(Val(pull.today_str))
           content == [run |-> Len(runs), today_str |-> Val(pull.today_str)]
           present == { f.path : f \in raw_pulls }
       IN  \/ /\ raw_pulls' = WriteFirst(raw_pulls, paths, Len(paths), content)
              /\ writes' = LogFirst(writes, present, paths, Len(paths), Val(pull.today_str))
              /\ IF stage = "cli"
                 THEN \* pull_data.main returns 0 (line 335)
                      /\ pc' = "done"
                      /\ exit_status' = "exit 0"
                      /\ runs' = runs
                 ELSE /\ runs' = [runs EXCEPT
                                   ![Len(runs)].direct_df = pull.direct_df,
                                   ![Len(runs)].supervision_df = pull.supervision_df,
                                   ![Len(runs)].bacb_df = pull.bacb_df,
                                   ![Len(runs)].employee_locations_df =
                                       pull.employee_locations_df]
                      /\ pc' = AfterPhase(1)
                      /\ exit_status' = exit_status
           \/ \E k \in 1..Len(paths), cause \in Causes :
                /\ faults
                /\ raw_pulls' = WriteFirst(raw_pulls, paths, k - 1, content)
                /\ writes' = LogFirst(writes, present, paths, k - 1, Val(pull.today_str))
                /\ Raise(runs, "Extract", cause)
    /\ pull' = PullLocals0
    /\ UNCHANGED << clock, ticks, inputs, archive, executions, stage, main, emails >>

(***************************************************************************)
(* The phases 2 to 4: join_supervision_data_main, transform_data_main and  *)
(* merge_data_main, called by run_pipeline_phases.  Each returns a dataset *)
(* built from its arguments or raises.                                     *)
(***************************************************************************)
Join ==
    /\ pc = "join"
    /\ \/ /\ runs' = [Invoke("Join") EXCEPT ![Len(runs)].joined_df =
                         << [kind |-> "joined_df",
                             direct_df |-> Cur.direct_df,
                             supervision_df |-> Cur.supervision_df] >>]
          /\ pc' = AfterPhase(2)
          /\ exit_status' = exit_status
       \/ \E cause \in Causes : faults /\ Raise(Invoke("Join"), "Join", cause)
    /\ UNCHANGED << clock, ticks, inputs, archive, writes, executions, stage, main, pull, conns, raw_pulls, emails >>

Transform ==
    /\ pc = "transform"
    /\ \/ /\ runs' = [Invoke("Transform") EXCEPT ![Len(runs)].transformed_df =
                         << [kind |-> "transformed_df", df |-> Cur.joined_df] >>]
          /\ pc' = AfterPhase(3)
          /\ exit_status' = exit_status
       \/ \E cause \in Causes : faults /\ Raise(Invoke("Transform"), "Transform", cause)
    /\ UNCHANGED << clock, ticks, inputs, archive, writes, executions, stage, main, pull, conns, raw_pulls, emails >>

\* The file merge_data_main writes (merge_data.py): with save_to_archive false
\* the output of the day, named by today's date; with save_to_archive true a
\* file of the archive folder: the finalized name for archive_date when no
\* archived file exists, and otherwise the name of the archived file found for
\* archive_date (found, a path or None) with _updated_<today> appended to its
\* base name.
CURRENT_FOLDER == "../../data/transformed_supervision_daily"

\* the name without its extension
Stem(filename) ==
    IF Len(filename) >= 5 /\ SubSeq(filename, Len(filename) - 4, Len(filename)) = ".xlsx"
    THEN SubSeq(filename, 1, Len(filename) - 5)
    ELSE filename

FinalizedName(archive_date) ==
    NAME_PREFIX \o archive_date \o "_FINAL_" \o MonthName(Val(strptime(archive_date)))
        \o ".xlsx"

merge_output(save_to_archive, archive_date, archive_file_exists, found, today_str) ==
    IF ~save_to_archive
    THEN PathJoin(CURRENT_FOLDER, NAME_PREFIX \o today_str \o ".xlsx")
    ELSE LET base == IF found # None THEN Stem(Val(found))
                     ELSE Stem(PathJoin(ARCHIVE_FOLDER, FinalizedName(Val(archive_date))))
         IN  IF archive_file_exists
             THEN base \o "_updated_" \o today_str \o ".xlsx"
             ELSE base \o ".xlsx"

\* the name of a file of the archive folder, from its path
ArchiveEntry(path) == SubSeq(path, Len(ARCHIVE_FOLDER) + 2, Len(path))

\* the listing with the name at position k
InsertAt(listing, k, name) ==
    SubSeq(listing, 1, k - 1) \o << name >> \o SubSeq(listing, k, Len(listing))

\* The file is written.  A new entry of the archive folder shows at any place
\* of the listing, and a missing folder is created; of a folder that cannot
\* be listed it is not known whether the file was there.
MergeSave ==
    LET today_str == strftime(clock)
        found == IF Cur.save_to_archive
                 THEN find_archived_file_from_date(Val(Cur.archive_date), archive_state,
                                                   archive_listing)
                 ELSE None
        path == merge_output(Cur.save_to_archive, Cur.archive_date,
                             Cur.archive_file_exists, found, today_str)
        entries == { archive_listing[i] : i \in 1..Len(archive_listing) }
    IN  IF ~Cur.save_to_archive
        THEN /\ writes' = Append(writes,
                              WriteRecord(path,
                                          \E i \in 1..Len(writes) : writes[i].path = path,
                                          today_str))
             /\ UNCHANGED archive
        ELSE IF archive_state = "unreadable"
        THEN /\ \E existed \in BOOLEAN :
                    writes' = Append(writes, WriteRecord(path, existed, today_str))
             /\ UNCHANGED archive
        ELSE /\ writes' = Append(writes,
                              WriteRecord(path, ArchiveEntry(path) \in entries, today_str))
             /\ archive_state' = "ok"
             /\ IF ArchiveEntry(path) \in entries
                THEN archive_listing' = archive_listing
                ELSE \E k \in 1..(Len(archive_listing) + 1) :
                        archive_listing' = InsertAt(archive_listing, k, ArchiveEntry(path))

\* a bug: the joined dataset is handed on instead of the transformed one
MergeArgumentsJoined(r) ==
    [ transformed_df |-> r.joined_df, bacb_df |-> r.bacb_df,
      employee_locations_df |-> r.employee_locations_df ]

\* lines 239-240: the datasets handed to merge_data_main, from the locals r of
\* the run
MergeArguments(r) ==
    [ transformed_df |-> r.transformed_df, bacb_df |-> r.bacb_df,
      employee_locations_df |-> r.employee_locations_df ]

Merge ==
    /\ pc = "merge"
    /\ \/ /\ MergeSave
          /\ runs' = [Invoke("Merge") EXCEPT ![Len(runs)].final_df =
                         << [kind |-> "final_df",
                             transformed_df |-> MergeArguments(Cur).transformed_df,
                             bacb_df |-> MergeArguments(Cur).bacb_df,
                             employee_locations_df |->
                                 MergeArguments(Cur).employee_locations_df,
                             save_to_archive |-> Cur.save_to_archive,
                             archive_date |-> Cur.archive_date,
                             archive_file_exists |-> Cur.archive_file_exists] >>]
          /\ pc' = AfterPhase(4)
          /\ exit_status' = exit_status
       \/ /\ \E cause \in Causes : faults /\ Raise(Invoke("Merge"), "Merge", cause)
          /\ UNCHANGED << archive, writes >>
    /\ UNCHANGED << clock, ticks, inputs, executions, stage, main, pull, conns, raw_pulls, emails >>

(***************************************************************************)
(* pull_data.py: main, the command line entry of the Extract phase.        *)
(***************************************************************************)
PullDataCli ==
    /\ pc = "cli"
    /\ stage' = "cli"
    /\ pc' = "extract"
    /\ UNCHANGED << clock, ticks, inputs, archive, writes, executions, main, runs, pull, conns, raw_pulls, emails,
                    exit_status >>

(***************************************************************************)
(* run_pipeline.py: main.                                                  *)
(***************************************************************************)
\* a bug: the fifth day is left out
run_previous_month_before_5(current_day) == current_day < 5

\* line 300
run_previous_month(current_day) == current_day <= 5

\* a bug: the current month is run only when nothing has failed so far
run_current_month_unless_failed(current_day) ==
    current_day >= 1 /\ main.overall_exit_code = 0

\* line 356
run_current_month(current_day) == current_day >= 1

\* a bug: the previous month of January stays in the same year
PrevMonthRangeNoYearWrap(now) ==
    LET prev_month == IF now.month = 1 THEN 12 ELSE now.month - 1
    IN  [ prev_month_start |-> strftime(datetime(now.year, prev_month, 1)),
          prev_month_end |-> strftime(datetime(now.year, now.month, 1)) ]

\* a bug: the previous month range ends today
PrevMonthRangeToToday(now) ==
    LET prev_month == IF now.month = 1 THEN 12 ELSE now.month - 1
        prev_year == IF now.month = 1 THEN now.year - 1 ELSE now.year
    IN  [ prev_month_start |-> strftime(datetime(prev_year, prev_month, 1)),
          prev_month_end |-> strftime(now) ]

\* lines 317-328: the date range of the previous month
PrevMonthRange(now) ==
    LET prev_month == IF now.month = 1 THEN 12 ELSE now.month - 1
        prev_year == IF now.month = 1 THEN now.year - 1 ELSE now.year
    IN  [ prev_month_start |-> strftime(datetime(prev_year, prev_month, 1)),
          prev_month_end |-> strftime(datetime(now.year, now.month, 1)) ]

\* lines 365-374: the start date of the current month run
CurrentMonthStart(now, given) ==
    IF Truthy(given) THEN Val(given) ELSE strftime(datetime(now.year, now.month, 1))

\* a bug: the message of the previous month run is not kept
AfterPreviousMonthDropsMessage(m, exit_code, error_message) ==
    LET r == [m EXCEPT !.exit_code = exit_code, !.error_message = error_message]
    IN  IF exit_code # 0 THEN [r EXCEPT !.overall_exit_code = exit_code] ELSE r

\* lines 346-351: main's locals after the previous month run returned
AfterPreviousMonth(m, exit_code, error_message) ==
    LET r == [m EXCEPT !.exit_code = exit_code, !.error_message = error_message]
    IN  IF exit_code # 0
        THEN [r EXCEPT !.overall_exit_code = exit_code,
                       !.overall_error_message = error_message]
        ELSE r

\* a bug: the outcome of the current month run replaces the overall outcome
AfterCurrentMonthOverwrites(m, exit_code, error_message) ==
    [m EXCEPT !.exit_code = exit_code, !.error_message = error_message,
              !.overall_exit_code = exit_code,
              !.overall_error_message = error_message]

\* lines 384-392: main's locals after the current month run returned
AfterCurrentMonth(m, exit_code, error_message) ==
    LET r == [m EXCEPT !.exit_code = exit_code, !.error_message = error_message]
    IN  IF exit_code # 0
        THEN [r EXCEPT !.overall_exit_code = exit_code,
                       !.overall_error_message =
                           IF Truthy(m.overall_error_message)
                           THEN Str(Val(m.overall_error_message) \o "; Current month: "
                                    \o Val(error_message))
                           ELSE error_message]
        ELSE r

\* a bug: a notification that was not sent makes the execution fail
ReturnValueCountsEmail(overall_exit_code, email_outcome) ==
    IF email_outcome = "sent" THEN overall_exit_code ELSE 1

\* line 423: what main returns, whatever became of the notification
ReturnValue(overall_exit_code, email_outcome) == overall_exit_code

\* a bug: the flag of the archive lookup is passed without the archive
PreviousMonthCallNotSaved(prev_month_start, prev_month_end, prev_month_last_day, file_exists) ==
    RunLocals0("A", Str(prev_month_start), Str(prev_month_end), FALSE, None, file_exists)

\* a bug: the previous month is always saved as a new file
PreviousMonthCallAlwaysNew(prev_month_start, prev_month_end, prev_month_last_day, file_exists) ==
    RunLocals0("A", Str(prev_month_start), Str(prev_month_end), TRUE,
               prev_month_last_day, FALSE)

\* lines 337-344: the arguments of the call for the previous month
PreviousMonthCall(prev_month_start, prev_month_end, prev_month_last_day, file_exists) ==
    RunLocals0("A", Str(prev_month_start), Str(prev_month_end), TRUE,
               prev_month_last_day, file_exists)

\* lines 376-382: the arguments of the call for the current month
CurrentMonthCall(start_date) ==
    RunLocals0("B", Str(start_date), None, FALSE, None, FALSE)

\* lines 277-300
MainStart ==
    /\ pc = "main"
    /\ main' = [MainLocals0 EXCEPT !.now = clock,
                                   !.current_day = clock.day,
                                   !.today_str = Str(strftime(clock)),
                                   !.run_previous_month = run_previous_month(clock.day)]
    /\ pc' = IF run_previous_month(clock.day) THEN "prev_last_day" ELSE "current_month"
    /\ UNCHANGED << clock, ticks, inputs, archive, writes, executions, stage, runs, pull, conns, raw_pulls, emails,
                    exit_status >>

\* lines 302-307: get_previous_month_last_day reads the clock itself
PreviousMonthLastDay ==
    /\ pc = "prev_last_day"
    /\ main' = [main EXCEPT !.prev_month_last_day = Str(get_previous_month_last_day(clock))]
    /\ pc' = "find_archived"
    /\ UNCHANGED << clock, ticks, inputs, archive, writes, executions, stage, runs, pull, conns, raw_pulls, emails,
                    exit_status >>

\* lines 309-315
FindArchivedFile ==
    /\ pc = "find_archived"
    /\ LET archived_file == find_archived_file_from_date(Val(main.prev_month_last_day),
                                                         archive_state, archive_listing)
       IN  main' = [main EXCEPT !.archived_file = archived_file,
                                !.file_exists = (archived_file # None)]
    /\ pc' = "prev_month_run"
    /\ UNCHANGED << clock, ticks, inputs, archive, writes, executions, stage, runs, pull, conns, raw_pulls, emails,
                    exit_status >>

\* lines 317-344: the call of run_pipeline_phases for the previous month
PreviousMonthRun ==
    /\ pc = "prev_month_run"
    /\ LET range == PrevMonthRange(main.now)
       IN  runs' = Append(runs, PreviousMonthCall(range.prev_month_start,
                                                  range.prev_month_end,
                                                  main.prev_month_last_day,
                                                  main.file_exists))
    /\ stage' = "A"
    /\ pc' = PcOfPhase(PhaseOrder[1])
    /\ UNCHANGED << clock, ticks, inputs, archive, writes, executions, main, pull, conns, raw_pulls, emails,
                    exit_status >>

\* lines 268 and 346-351: the previous month run returns to main
PreviousMonthReturn ==
    /\ pc = "run_return"
    /\ stage = "A"
    /\ runs' = [runs EXCEPT ![Len(runs)].returned = TRUE]
    /\ main' = AfterPreviousMonth(main, Cur.exit_code, Cur.error_message)
    /\ stage' = "none"
    /\ pc' = "current_month"
    /\ UNCHANGED << clock, ticks, inputs, archive, writes, executions, pull, conns, raw_pulls, emails, exit_status >>

\* lines 353-382: the call of run_pipeline_phases for the current month
CurrentMonthRun ==
    /\ pc = "current_month"
    /\ IF run_current_month(main.current_day)
       THEN /\ runs' = Append(runs, CurrentMonthCall(
                                   CurrentMonthStart(main.now, args_start_date)))
            /\ stage' = "B"
            /\ pc' = PcOfPhase(PhaseOrder[1])
       ELSE /\ pc' = "notify"
            /\ UNCHANGED << runs, stage >>
    /\ UNCHANGED << clock, ticks, inputs, archive, writes, executions, main, pull, conns, raw_pulls, emails,
                    exit_status >>

\* lines 268 and 384-392: the current month run returns to main
CurrentMonthReturn ==
    /\ pc = "run_return"
    /\ stage = "B"
    /\ runs' = [runs EXCEPT ![Len(runs)].returned = TRUE]
    /\ main' = AfterCurrentMonth(main, Cur.exit_code, Cur.error_message)
    /\ stage' = "none"
    /\ pc' = "notify"
    /\ UNCHANGED << clock, ticks, inputs, archive, writes, executions, pull, conns, raw_pulls, emails, exit_status >>

\* lines 394-421: send_email.py is run; it returns 0 ("sent"), returns another
\* code ("nonzero"), exceeds the 30 s ("timeout") or subprocess.run raises
\* ("exception")
EmailOutcomes == { "sent", "nonzero", "timeout", "exception" }

SendEmail ==
    /\ pc = "notify"
    /\ \E outcome \in EmailOutcomes :
         /\ ~faults => outcome = "sent"
         /\ emails' = Append(emails,
                          [ args |-> email_cmd(main.overall_exit_code,
                                               main.overall_error_message),
                            outcome |-> outcome,
                            runs_returned |-> Len(SelectSeq(runs, LAMBDA r : r.returned)) ])
    /\ pc' = "return"
    /\ UNCHANGED << clock, ticks, inputs, archive, writes, executions, stage, main, runs, pull, conns, raw_pulls,
                    exit_status >>

\* lines 423 and 427: exit(main())
MainReturn ==
    /\ pc = "return"
    /\ exit_status' = "exit " \o ToString(ReturnValue(main.overall_exit_code,
                                                       emails[Len(emails)].outcome))
    /\ pc' = "done"
    /\ UNCHANGED << clock, ticks, inputs, archive, writes, executions, stage, main, runs, pull, conns, raw_pulls,
                    emails >>

Next ==
    \/ Tick
    \/ PullDataCli
    \/ PullResolve
    \/ PullConnect
    \/ PullQuery
    \/ PullCloseSave
    \/ Join
    \/ Transform
    \/ Merge
    \/ MainStart
    \/ PreviousMonthLastDay
    \/ FindArchivedFile
    \/ PreviousMonthRun
    \/ PreviousMonthReturn
    \/ CurrentMonthRun
    \/ CurrentMonthReturn
    \/ SendEmail
    \/ MainReturn

Spec == Init /\ [][Next]_vars

(***************************************************************************)
(* The script executed again: the scheduler (or an operator) starts the    *)
(* same command once more, on the same day or on the next one.  The files  *)
(* stay; the process starts from its first statement.                      *)
(***************************************************************************)
RerunDates == { datetime(2025, 3, 4), datetime(2025, 6, 15) }

\* names the archive folder may hold before the first execution: the file of
\* the target date d in the finalized and in the legacy scheme, and an
\* amendment of an earlier day
RerunNames(d) ==
    LET dt == Val(strptime(d))
    IN  { NAME_PREFIX \o d \o "_FINAL_" \o MonthName(dt) \o ".xlsx",
          NAME_PREFIX \o d \o ".xlsx",
          NAME_PREFIX \o d \o "_FINAL_" \o MonthName(dt) \o "_updated_" \o
              strftime(PlusOneDay(PlusOneDay(dt))) \o ".xlsx" }

InitRerun ==
    /\ clock \in RerunDates
    /\ entry \in {"run_pipeline", "pull_data"}
    /\ args_start_date = None
    /\ env = FullEnv
    /\ faults = FALSE
    /\ IF entry = "run_pipeline" /\ clock.day <= 5
       THEN /\ archive_state \in {"ok", "missing", "unreadable"}
            /\ IF archive_state = "ok"
               THEN archive_listing \in
                        Listings(RerunNames(strftime(MinusOneDay(
                                     datetime(clock.year, clock.month, 1)))))
               ELSE archive_listing = << >>
       ELSE /\ archive_state = "missing"
            /\ archive_listing = << >>
    /\ ticks = 0
    /\ pc = IF entry = "run_pipeline" THEN "main" ELSE "cli"
    /\ stage = "none"
    /\ main = MainLocals0
    /\ runs = << >>
    /\ writes = << >>
    /\ executions = 1
    /\ pull = PullLocals0
    /\ conns = << >>
    /\ raw_pulls = {}
    /\ emails = << >>
    /\ exit_status = "running"

Restart ==
    /\ pc = "done"
    /\ executions < MaxExecutions
    /\ executions' = executions + 1
    /\ \/ UNCHANGED << clock, ticks >>
       \/ /\ ticks < MaxTicks
          /\ clock' = PlusOneDay(clock)
          /\ ticks' = ticks + 1
    /\ pc' = IF entry = "run_pipeline" THEN "main" ELSE "cli"
    /\ stage' = "none"
    /\ main' = MainLocals0
    /\ runs' = << >>
    /\ pull' = PullLocals0
    /\ conns' = << >>
    /\ emails' = << >>
    /\ exit_status' = "running"
    /\ UNCHANGED << inputs, archive, writes, raw_pulls >>

NextRerun == Next \/ Restart

SpecRerun == InitRerun /\ [][NextRerun]_vars

(***************************************************************************)
(* Properties.                                                             *)
(***************************************************************************)
IsPipeline == entry = "run_pipeline"

\* main has left its two stages behind
StagesOver == IsPipeline /\ pc \in {"notify", "return", "done"}

RunIndices == 1..Len(runs)
FailedRuns == { i \in RunIndices : runs[i].exit_code = 1 }

\* C1: on a day 1-5 the current month run (Stage B) is started, and only after
\* the previous month run (Stage A) has returned, whatever its outcome; when
\* Stage A's Extract raised and no phase of Stage B raised, Stage B has called
\* all four phases and returned 0, and the overall exit code is 1.
C1_FailureIsolation ==
    /\ \A i \in RunIndices :
         (runs[i].stage = "B" /\ main.current_day <= 5) =>
             (i = 2 /\ runs[1].stage = "A" /\ runs[1].returned)
    /\ (StagesOver /\ main.current_day <= 5) =>
         /\ Len(runs) = 2
         /\ runs[2].stage = "B"
         /\ (runs[1].raised_in = Str("Extract") /\ runs[2].raised_in = None) =>
                /\ runs[2].invoked = << "Extract", "Join", "Transform", "Merge" >>
                /\ runs[2].exit_code = 0
                /\ runs[2].returned
                /\ main.overall_exit_code = 1
                /\ pc = "done" => exit_status = "exit 1"

C1_Witness ==
    /\ IsPipeline /\ pc = "done" /\ main.current_day <= 5
    /\ Len(runs) = 2
    /\ runs[1].raised_in = Str("Extract")
    /\ runs[2].raised_in = None /\ runs[2].exit_code = 0
    /\ exit_status = "exit 1"

\* C2: main makes exactly two runs, Stage A with save_to_archive = True and
\* then Stage B with save_to_archive = False, when the day of the month is at
\* most 5, and exactly one, Stage B, when it is greater; Stage A never starts
\* after Stage B and no stage runs twice.
C2_StageSchedule ==
    LET expected == IF main.current_day <= 5
                    THEN << [stage |-> "A", save_to_archive |-> TRUE],
                            [stage |-> "B", save_to_archive |-> FALSE] >>
                    ELSE << [stage |-> "B", save_to_archive |-> FALSE] >>
        started == [ i \in RunIndices |->
                       [stage |-> runs[i].stage, save_to_archive |-> runs[i].save_to_archive] ]
    IN  /\ IsPipeline /\ pc # "main" =>
             /\ Len(started) <= Len(expected)
             /\ started = SubSeq(expected, 1, Len(started))
        /\ StagesOver => started = expected

C2_Witness ==
    /\ IsPipeline /\ pc = "done" /\ main.current_day = 5
    /\ Len(runs) = 2 /\ runs[1].save_to_archive /\ ~runs[2].save_to_archive

\* C3: in one run of run_pipeline_phases the phases are called in the order
\* Extract, Join, Transform, Merge, each at most once; a phase is called only
\* when the one before it has returned its result, nothing is called after a
\* phase raised, and a run that returns 0 has called all four.
C3_PhaseOrder ==
    \A i \in RunIndices :
        LET r == runs[i]
            order == << "Extract", "Join", "Transform", "Merge" >>
        IN  /\ Len(r.invoked) <= 4
            /\ r.invoked = SubSeq(order, 1, Len(r.invoked))
            /\ Len(r.invoked) >= 2 =>
                   (r.direct_df # None /\ r.supervision_df # None
                    /\ r.bacb_df # None /\ r.employee_locations_df # None)
            /\ Len(r.invoked) >= 3 => r.joined_df # None
            /\ Len(r.invoked) >= 4 => r.transformed_df # None
            /\ r.raised_in # None =>
                   (r.invoked # << >> /\ r.raised_in = Str(r.invoked[Len(r.invoked)]))
            /\ (r.returned /\ r.exit_code = 0) =>
                   (r.invoked = order /\ r.final_df # None /\ r.raised_in = None)

C3_Witness ==
    \E i \in RunIndices :
        /\ runs[i].returned /\ runs[i].exit_code = 0
        /\ runs[i].invoked = << "Extract", "Join", "Transform", "Merge" >>

\* C4: an exception raised by any of the four phases is caught in
\* run_pipeline_phases and does not reach main: the run has exit_code 1 and an
\* error_message that is the cause (its first 500 characters when it is
\* longer), and main receives the same two values whichever phase raised.
C4_ExceptionsCaught ==
    /\ IsPipeline => exit_status # "uncaught exception"
    /\ \A i \in RunIndices :
         LET r == runs[i]
         IN  r.raised_in # None =>
                /\ r.raised_in \in { Str("Extract"), Str("Join"), Str("Transform"), Str("Merge") }
                /\ r.exit_code = 1
                /\ r.error_message # None
                /\ IF Len(Val(r.cause)) <= 500
                   THEN Val(r.error_message) = Val(r.cause)
                   ELSE SubSeq(Val(r.error_message), 1, 500) = SubSeq(Val(r.cause), 1, 500)
                /\ (r.returned /\ i = Len(runs) /\ pc \in {"current_month", "notify"}) =>
                       (main.exit_code = 1 /\ main.error_message = r.error_message)

C4_Witness ==
    /\ IsPipeline /\ pc = "done" /\ exit_status = "exit 1"
    /\ \E i \in RunIndices : runs[i].raised_in = Str("Transform") /\ runs[i].returned

\* C5: the exit code of main is 1 when at least one executed stage returned
\* exit_code 1 and 0 otherwise.
C5_OverallExitCode ==
    /\ StagesOver => main.overall_exit_code = (IF FailedRuns # {} THEN 1 ELSE 0)
    /\ (IsPipeline /\ pc = "done") =>
           exit_status = (IF FailedRuns # {} THEN "exit 1" ELSE "exit 0")

C5_Witness ==
    /\ IsPipeline /\ pc = "done" /\ Len(runs) = 2
    /\ runs[1].exit_code = 1 /\ runs[2].exit_code = 0
    /\ exit_status = "exit 1"

\* the error message of the failed run of a stage, None when the stage did not
\* run or did not fail
StageMessage(st) ==
    IF \E i \in FailedRuns : runs[i].stage = st
    THEN runs[CHOOSE i \in FailedRuns : runs[i].stage = st].error_message
    ELSE None

\* m occurs in x behind a prefix that is not empty (a label)
Labelled(x, m) == \E i \in 2..(Len(x) - Len(m) + 1) : SubSeq(x, i, i + Len(m) - 1) = m

\* C6, as claimed: the overall error message is None when every executed stage
\* succeeded and otherwise holds every non-empty message of a failed stage,
\* each behind its stage label.
C6_EveryMessageLabelled ==
    StagesOver =>
        IF FailedRuns = {}
        THEN main.overall_error_message = None
        ELSE \A st \in {"A", "B"} :
                Truthy(StageMessage(st)) =>
                    /\ main.overall_error_message # None
                    /\ Labelled(Val(main.overall_error_message), Val(StageMessage(st)))

\* C6, amended: the overall error message is None when every executed stage
\* succeeded; it is the message of the failed stage as it is, without a label,
\* when one stage failed, and also when both failed and Stage A's message is
\* empty (then it is Stage B's message); otherwise it is Stage A's message
\* without a label, "; Current month: " and Stage B's message.
C6_OverallErrorMessage ==
    StagesOver =>
        LET a == StageMessage("A")
            b == StageMessage("B")
        IN  main.overall_error_message =
                IF a = None /\ b = None THEN None
                ELSE IF b = None THEN a
                ELSE IF ~Truthy(a) THEN b
                ELSE Str(Val(a) \o "; Current month: " \o Val(b))

C6_Witness ==
    /\ IsPipeline /\ pc = "done"
    /\ Truthy(StageMessage("A")) /\ Truthy(StageMessage("B"))
    /\ main.overall_error_message =
           Str(Val(StageMessage("A")) \o "; Current month: " \o Val(StageMessage("B")))

\* C7: send_email.py is run exactly once in an execution of main, after every
\* scheduled stage has returned, with the aggregated exit code as its first
\* argument; whatever becomes of it, main returns that exit code.
C7_NotificationOnce ==
    LET code == IF FailedRuns # {} THEN "1" ELSE "0"
    IN  /\ Len(emails) <= 1
        /\ (IsPipeline /\ pc \in {"return", "done"}) => Len(emails) = 1
        /\ emails # << >> =>
               /\ Len(runs) = (IF main.current_day <= 5 THEN 2 ELSE 1)
               /\ \A i \in RunIndices : runs[i].returned
               /\ emails[1].runs_returned = Len(runs)
               /\ emails[1].args[1] = code
        /\ (IsPipeline /\ pc = "done") => exit_status = "exit " \o code

C7_Witness ==
    /\ IsPipeline /\ pc = "done" /\ Len(emails) = 1
    /\ emails[1].outcome = "timeout"
    /\ exit_status = "exit 0"

\* C8, as claimed: with a connection parameter missing no run of
\* run_pipeline_phases is begun.
C8_NoRunWithoutCredentials ==
    CredentialsMissing(env) => runs = << >>

\* C8, amended: a missing connection parameter is not checked before the stages
\* start.  Every scheduled stage is begun and calls Extract, where the
\* connection fails; run_pipeline_phases catches that as exit_code 1, main goes
\* on to the next stage and to the notification and returns 1.
C8_MissingCredentialsFailEachStage ==
    (IsPipeline /\ CredentialsMissing(env)) =>
        /\ conns = << >>
        /\ StagesOver =>
               /\ Len(runs) = (IF main.current_day <= 5 THEN 2 ELSE 1)
               /\ \A i \in RunIndices :
                      /\ runs[i].invoked = << "Extract" >>
                      /\ runs[i].raised_in = Str("Extract")
                      /\ runs[i].exit_code = 1
               /\ main.overall_exit_code = 1
        /\ pc = "done" => (exit_status = "exit 1" /\ Len(emails) = 1)

C8_Witness ==
    /\ IsPipeline /\ CredentialsMissing(env) /\ pc = "done"
    /\ Len(runs) = 2 /\ runs[2].raised_in = Str("Extract")
    /\ exit_status = "exit 1"

\* the number of the day dt, counted from 2000-01-01
RECURSIVE DaysOfMonthsBefore(_, _)
DaysOfMonthsBefore(y, m) ==
    IF m = 1 THEN 0 ELSE DaysOfMonthsBefore(y, m - 1) + DaysInMonth(y, m - 1)

Ordinal(dt) ==
    365 * (dt.year - 2000) + Cardinality({ y \in 2000..(dt.year - 1) : IsLeap(y) })
    + DaysOfMonthsBefore(dt.year, dt.month) + dt.day

\* C9: called without a start date on a day 1-5, pull_data_main resolves the
\* window [first day of the month before today's, first day of today's month):
\* December of the year before in January, 2024-12-01 .. 2025-01-01 on
\* 2025-01-03; the window is exactly the previous month.
C9_PreviousMonthWindow ==
    (stage = "cli" /\ pc = "pull_connect" /\ ~Truthy(args_start_date) /\ pull.now.day <= 5) =>
        LET t == pull.now
            sd == strptime(Val(pull.start_date))
            ed == strptime(Val(pull.end_date))
        IN  /\ sd # None /\ ed # None
            /\ Val(ed) = datetime(t.year, t.month, 1)
            /\ Val(sd).day = 1
            /\ Ordinal(Val(ed)) - Ordinal(Val(sd)) = DaysInMonth(Val(sd).year, Val(sd).month)
            /\ t.month = 1 => Val(sd) = datetime(t.year - 1, 12, 1)
            /\ t.month > 1 => Val(sd) = datetime(t.year, t.month - 1, 1)
            /\ t = datetime(2025, 1, 3) =>
                   (pull.start_date = Str("2024-12-01") /\ pull.end_date = Str("2025-01-01"))

C9_Witness ==
    /\ stage = "cli" /\ pc = "pull_connect" /\ args_start_date = None
    /\ pull.now = datetime(2025, 1, 3)
    /\ pull.start_date = Str("2024-12-01") /\ pull.end_date = Str("2025-01-01")

\* the window w is [first day of t's month, t + 1 day)
IsMonthToDate(w, t) ==
    LET sd == strptime(Val(w.start_date))
        ed == strptime(Val(w.end_date))
    IN  /\ sd # None /\ ed # None
        /\ Val(sd) = datetime(t.year, t.month, 1)
        /\ Ordinal(Val(ed)) = Ordinal(t) + 1
        /\ t = datetime(2025, 6, 15) =>
               (w.start_date = Str("2025-06-01") /\ w.end_date = Str("2025-06-16"))
        /\ t = datetime(2025, 12, 31) => w.end_date = Str("2026-01-01")
        /\ t = datetime(2024, 2, 29) => w.end_date = Str("2024-03-01")

\* C10: without a start date, on a day after the 5th, the window resolved is
\* [first day of today's month, today + 1 day), also on the last day of a month
\* or of a year: for pull_data_main on its own, and for the current month run
\* of main (today being the date both main and pull_data_main read).
C10_MonthToDateWindow ==
    /\ (stage = "cli" /\ pc = "pull_connect" /\ ~Truthy(args_start_date)
          /\ pull.now.day > 5) =>
           IsMonthToDate([start_date |-> pull.start_date, end_date |-> pull.end_date],
                         pull.now)
    /\ \A i \in RunIndices :
           (/\ runs[i].stage = "B" /\ runs[i].window # None
            /\ ~Truthy(args_start_date)
            /\ main.current_day > 5
            /\ runs[i].today_str = main.today_str) =>
               IsMonthToDate(Val(runs[i].window), main.now)

C10_Witness ==
    /\ IsPipeline /\ args_start_date = None /\ main.now = datetime(2025, 12, 31)
    /\ Len(runs) = 1 /\ runs[1].stage = "B" /\ runs[1].window # None
    /\ runs[1].today_str = main.today_str
    /\ Val(runs[1].window) = [start_date |-> Str("2025-12-01"), end_date |-> Str("2026-01-01")]

\* C11: with a start date given on the command line, the window resolved is
\* [the date given, today + 1 day) on every day of the month, the days 1 to 5
\* included (today being the date pull_data_main reads); in the pipeline the
\* current month run (Stage B) is the run that gets it, the previous month run
\* keeps the previous month.
C11_ExplicitStartWindow ==
    /\ (stage = "cli" /\ pc = "pull_connect" /\ Truthy(args_start_date)) =>
           /\ pull.start_date = args_start_date
           /\ strptime(Val(pull.end_date)) # None
           /\ Ordinal(Val(strptime(Val(pull.end_date)))) = Ordinal(pull.now) + 1
    /\ \A i \in RunIndices :
           (runs[i].window # None /\ Truthy(args_start_date)) =>
               LET w == Val(runs[i].window)
                   t == Val(strptime(Val(runs[i].today_str)))
               IN  IF runs[i].stage = "B"
                   THEN /\ w.start_date = args_start_date
                        /\ strptime(Val(w.end_date)) # None
                        /\ Ordinal(Val(strptime(Val(w.end_date)))) = Ordinal(t) + 1
                   ELSE /\ w.start_date # args_start_date
                        /\ w.start_date = Str(PrevMonthRange(main.now).prev_month_start)
                        /\ w.end_date = Str(PrevMonthRange(main.now).prev_month_end)

C11_Witness ==
    /\ IsPipeline /\ args_start_date = Str("2024-11-20") /\ main.now = datetime(2025, 3, 4)
    /\ Len(runs) = 2 /\ runs[2].stage = "B"
    /\ runs[1].window = << [start_date |-> Str("2025-02-01"), end_date |-> Str("2025-03-01")] >>
    /\ runs[2].window = << [start_date |-> Str("2024-11-20"), end_date |-> Str("2025-03-05")] >>

\* the date a is before the date b (both 'YYYY-MM-DD')
DateBefore(a, b) ==
    /\ strptime(a) # None /\ strptime(b) # None
    /\ Ordinal(Val(strptime(a))) < Ordinal(Val(strptime(b)))

\* C12: every date window pull_data_main resolves for its queries has
\* start_date < end_date, whatever the day and whatever start date the command
\* line gave.
C12_WindowOrdered ==
    /\ pull.start_date # None => DateBefore(Val(pull.start_date), Val(pull.end_date))
    /\ \A i \in RunIndices :
           runs[i].window # None =>
               DateBefore(Val(Val(runs[i].window).start_date),
                          Val(Val(runs[i].window).end_date))

\* C13: on a day 1-5 without a start date, main has called run_pipeline_phases
\* exactly twice when it ends: first for the whole previous month, saved to
\* the archive under the last day of the previous month, with
\* archive_file_exists true iff the archive lookup returned a file; then for
\* [first day of today's month, today + 1 day), not saved to the archive
\* (today being the date both main and pull_data_main read).  On 2025-03-04
\* with no archived file for 2025-02-28: 2025-02-01 .. 2025-03-01, archive,
\* not existing, and 2025-03-01 .. 2025-03-05, no archive.
C13_TwoRunSpecs ==
    (/\ IsPipeline /\ ~Truthy(args_start_date)
     /\ pc \in {"notify", "return", "done"} /\ main.current_day <= 5) =>
        /\ Len(runs) = 2
        /\ LET a == runs[1]
               t == main.now
               sd == strptime(Val(a.start_date))
               ed == strptime(Val(a.end_date))
               ad == strptime(Val(a.archive_date))
           IN  /\ a.stage = "A"
               /\ sd # None /\ ed # None /\ ad # None
               /\ Val(ed) = datetime(t.year, t.month, 1)
               /\ Val(sd).day = 1
               /\ Ordinal(Val(ed)) - Ordinal(Val(sd)) =
                      DaysInMonth(Val(sd).year, Val(sd).month)
               /\ a.save_to_archive = TRUE
               /\ Ordinal(Val(ad)) = Ordinal(Val(ed)) - 1
               /\ a.archive_file_exists = (main.archived_file # None)
               /\ a.window # None =>
                      Val(a.window) = [start_date |-> a.start_date, end_date |-> a.end_date]
               /\ (t = datetime(2025, 3, 4) /\ main.archived_file = None) =>
                      /\ a.start_date = Str("2025-02-01") /\ a.end_date = Str("2025-03-01")
                      /\ a.archive_date = Str("2025-02-28")
                      /\ a.archive_file_exists = FALSE
        /\ LET b == runs[2]
           IN  /\ b.stage = "B"
               /\ b.save_to_archive = FALSE
               /\ b.start_date = Str(strftime(datetime(main.now.year, main.now.month, 1)))
               /\ (b.window # None /\ b.today_str = main.today_str) =>
                      /\ IsMonthToDate(Val(b.window), main.now)
                      /\ main.now = datetime(2025, 3, 4) =>
                             Val(b.window) = [start_date |-> Str("2025-03-01"),
                                              end_date |-> Str("2025-03-05")]

C13_Witness ==
    /\ IsPipeline /\ args_start_date = None /\ pc = "done"
    /\ main.now = datetime(2025, 3, 4)
    /\ archive_state = "ok" /\ Len(archive_listing) = 1 /\ main.archived_file = None
    /\ Len(runs) = 2
    /\ runs[1].start_date = Str("2025-02-01") /\ runs[1].end_date = Str("2025-03-01")
    /\ runs[1].save_to_archive /\ runs[1].archive_date = Str("2025-02-28")
    /\ ~runs[1].archive_file_exists
    /\ ~runs[2].save_to_archive
    /\ runs[2].window = << [start_date |-> Str("2025-03-01"), end_date |-> Str("2025-03-05")] >>

\* C14: in every call of run_pipeline_phases by main, archive_date is set if
\* and only if save_to_archive is true, and archive_file_exists is true only
\* with save_to_archive true.
C14_ArchiveArguments ==
    \A i \in RunIndices :
        /\ (runs[i].archive_date # None) <=> runs[i].save_to_archive
        /\ runs[i].archive_file_exists => runs[i].save_to_archive

C14_Witness ==
    /\ Len(runs) = 2
    /\ runs[1].save_to_archive /\ runs[1].archive_date = Str("2025-02-28")
    /\ runs[1].archive_file_exists
    /\ ~runs[2].save_to_archive /\ runs[2].archive_date = None
    /\ ~runs[2].archive_file_exists

\* the names of the finalized scheme and of the legacy scheme for the date d
IsFinalizedName(name, d) ==
    LET base == "daily_supervision_hours_transformed_" \o d \o "_FINAL_"
                    \o MonthNames[Val(strptime(d)).month]
    IN  name = base \o ".xlsx" \/ StartsWith(name, base \o "_updated_")

IsLegacyName(name, d) ==
    LET base == "daily_supervision_hours_transformed_" \o d
    IN  name = base \o ".xlsx" \/ StartsWith(name, base \o "_updated_")

\* main is past the archive lookup of the previous month
LookupDone ==
    /\ IsPipeline /\ main.run_previous_month
    /\ pc \notin {"main", "prev_last_day", "find_archived"}

\* the archive folder is as the lookup saw it: the previous month run has not
\* written its file yet
ArchiveAsListed ==
    \A i \in 1..Len(writes) :
        (writes[i].execution = executions /\ writes[i].stage = "A") =>
            ~StartsWith(writes[i].path, "../../data/transformed_supervision_daily/archived/")

\* C15: the archive lookup returns the first entry of the directory listing
\* that has one of the four names for the target date (finalized, finalized
\* with _updated_, legacy, legacy with _updated_), whatever matches after it,
\* and returns nothing if and only if no entry has one of them.
C15_FirstMatchReturned ==
    (LookupDone /\ ArchiveAsListed /\ archive_state \in {"ok", "missing"}) =>
        LET d == Val(main.prev_month_last_day)
            matching == { i \in 1..Len(archive_listing) :
                            IsFinalizedName(archive_listing[i], d)
                            \/ IsLegacyName(archive_listing[i], d) }
        IN  /\ (main.archived_file = None) <=> (matching = {})
            /\ \A i \in matching :
                   (\A j \in matching : i <= j) =>
                       main.archived_file =
                           Str("../../data/transformed_supervision_daily/archived/"
                               \o archive_listing[i])

C15_Witness ==
    /\ LookupDone /\ ArchiveAsListed /\ archive_state = "ok"
    /\ archive_listing =
           << "daily_supervision_hours_transformed_2025-02-28_FINAL_February_updated_2025-03-02.xlsx",
              "daily_supervision_hours_transformed_2025-02-28_FINAL_February.xlsx" >>
    /\ main.archived_file =
           Str("../../data/transformed_supervision_daily/archived/"
               \o "daily_supervision_hours_transformed_2025-02-28_FINAL_February_updated_2025-03-02.xlsx")

EndsWith(s, p) == Len(s) >= Len(p) /\ SubSeq(s, Len(s) - Len(p) + 1, Len(s)) = p

\* the writes of the previous month run (Stage A) into the archive folder
ArchiveWrites ==
    { i \in 1..Len(writes) :
        /\ writes[i].stage = "A"
        /\ StartsWith(writes[i].path, "../../data/transformed_supervision_daily/archived/") }

\* the file written for an archived file found: its base name with
\* _updated_<today>, in the same scheme
IsAmendmentOf(path, found, today_str) ==
    LET folder == "../../data/transformed_supervision_daily/archived/"
        d == Val(main.prev_month_last_day)
    IN  /\ path # found
        /\ EndsWith(found, ".xlsx")
        /\ path = SubSeq(found, 1, Len(found) - 5) \o "_updated_" \o today_str \o ".xlsx"
        /\ IsFinalizedName(SubSeq(path, Len(folder) + 1, Len(path)), d)
               <=> IsFinalizedName(SubSeq(found, Len(folder) + 1, Len(found)), d)

\* what the previous month run of this execution has written into the archive
\* folder is the amendment of the file the lookup found
AmendmentWritten ==
    \A i \in ArchiveWrites :
        (writes[i].execution = executions /\ main.archived_file # None) =>
            IsAmendmentOf(writes[i].path, Val(main.archived_file), writes[i].today_str)

C18_LookupFailureTolerated ==
    /\ (LookupDone /\ ArchiveAsListed /\ archive_state \in {"missing", "unreadable"}) =>
           /\ main.archived_file = None /\ ~main.file_exists
           /\ exit_status # "uncaught exception"
           /\ pc # "prev_month_run" =>
                  /\ Len(runs) >= 1
                  /\ runs[1].stage = "A" /\ runs[1].save_to_archive
                  /\ ~runs[1].archive_file_exists
    /\ (/\ LookupDone /\ main.archived_file = None /\ pc = "done"
        /\ \A i \in RunIndices : runs[i].raised_in = None) =>
           /\ Len(runs) = 2
           /\ \A i \in RunIndices : runs[i].exit_code = 0
           /\ main.overall_exit_code = 0
           /\ exit_status = "exit 0"

C18_Witness ==
    /\ LookupDone /\ archive_state = "unreadable" /\ pc = "done"
    /\ main.archived_file = None
    /\ Len(runs) = 2 /\ runs[1].stage = "A" /\ ~runs[1].archive_file_exists
    /\ runs[1].final_df # None /\ runs[1].exit_code = 0
    /\ exit_status = "exit 0"

\* the writes of the stage st in the execution e, and their paths
WritesOf(e, st) ==
    { i \in 1..Len(writes) : writes[i].execution = e /\ writes[i].stage = st }

PathsOf(e, st) == { writes[i].path : i \in WritesOf(e, st) }

\* C19: the two runs of one execution share no file: no path written by the
\* previous month run (Stage A) is written by the current month run (Stage B)
\* of the same execution, the files of the Extract phase included; and the
\* datasets of a run come from its own queries.
C19_StagesShareNothing ==
    /\ \A e \in 1..executions : PathsOf(e, "A") \cap PathsOf(e, "B") = {}
    /\ \A i \in RunIndices :
           \A df \in { runs[i].direct_df, runs[i].supervision_df, runs[i].bacb_df,
                        runs[i].employee_locations_df } :
               df # None => Val(df).run = i

\* the files there after the execution e: those of the archive folder and
\* those written up to e
FilesAfter(e) ==
    { writes[i].path : i \in { j \in 1..Len(writes) : writes[j].execution <= e } }
    \cup { PathJoin(ARCHIVE_FOLDER, archive_listing[i]) : i \in 1..Len(archive_listing) }

\* the current month run of the execution e has written all its files under
\* the date t
StageBOn(e, t) ==
    /\ WritesOf(e, "B") # {}
    /\ \A i \in WritesOf(e, "B") : writes[i].today_str = t

C21_ErrorMessageBounded ==
    \A i \in RunIndices :
        /\ runs[i].error_message # None => Len(Val(runs[i].error_message)) <= 515
        /\ (runs[i].cause # None /\ runs[i].exit_code = 1) =>
               LET c == Val(runs[i].cause)
                   m == Val(runs[i].error_message)
               IN  /\ runs[i].error_message # None
                   /\ Len(c) <= 500 => m = c
                   /\ Len(c) > 500 =>
                          /\ Len(m) = 515
                          /\ SubSeq(m, 1, 500) = SubSeq(c, 1, 500)
                          /\ SubSeq(m, 501, 515) = "... (truncated)"

C21_Witness ==
    /\ Len(runs) = 2 /\ runs[1].cause # None /\ runs[2].cause # None
    /\ Len(Val(runs[1].cause)) = 500 /\ runs[1].error_message = runs[1].cause
    /\ Len(Val(runs[2].cause)) = 501 /\ Len(Val(runs[2].error_message)) = 515

\* the number of calls of the phase in the run r
Calls(r, phase) == Cardinality({ k \in 1..Len(r.invoked) : r.invoked[k] = phase })

\* the dataset df is the result of the query name of the run i
FromExtractOf(df, name, i) == df # None /\ Val(df).kind = name /\ Val(df).run = i

\* C22: inside one run, Join gets the direct and the supervision dataset its
\* own Extract returned; Transform is called once, with the result of Join;
\* Merge gets the result of Transform as it is, with the BACB and the employee
\* locations dataset of the same run's Extract, never those of the other run.
C22_DataThreading ==
    \A i \in RunIndices :
        LET r == runs[i]
        IN  /\ Calls(r, "Transform") <= 1
            /\ r.joined_df # None =>
                   /\ Val(r.joined_df).direct_df = r.direct_df
                   /\ Val(r.joined_df).supervision_df = r.supervision_df
                   /\ FromExtractOf(r.direct_df, "direct_df", i)
                   /\ FromExtractOf(r.supervision_df, "supervision_df", i)
            /\ r.transformed_df # None =>
                   /\ Calls(r, "Transform") = 1
                   /\ r.joined_df # None
                   /\ Val(r.transformed_df) = [kind |-> "transformed_df", df |-> r.joined_df]
            /\ r.final_df # None =>
                   /\ r.transformed_df # None
                   /\ Val(r.final_df).transformed_df = r.transformed_df
                   /\ Val(r.final_df).bacb_df = r.bacb_df
                   /\ Val(r.final_df).employee_locations_df = r.employee_locations_df
                   /\ FromExtractOf(r.bacb_df, "bacb_df", i)
                   /\ FromExtractOf(r.employee_locations_df, "employee_locations_df", i)

C22_Witness ==
    /\ Len(runs) = 2 /\ pc = "done"
    /\ runs[1].final_df # None /\ runs[2].final_df # None
    /\ Val(Val(runs[2].final_df).bacb_df).run = 2
    /\ Val(Val(runs[1].final_df).bacb_df).run = 1
    /\ Val(Val(Val(Val(runs[2].final_df).transformed_df).df).direct_df).run = 2

\* C23: get_db_connection tries the four driver configurations in the order
\* of the list and returns the connection of the first one that connects; it
\* raises only when all four have been tried and have failed.
C23_AllDriversTried ==
    /\ \A k \in 1..Len(pull.tried) : pull.tried[k] = k
    /\ Len(pull.tried) <= 4
    /\ (pull.conn = 0 /\ pull.tried # << >>) => pull.tried = << 1, 2, 3, 4 >>

\* C24: every connection pull_data_main has opened is closed when
\* pull_data_main has returned or raised, also when one of the four queries
\* fails on the open connection.
C24_ConnectionsClosed ==
    pc \notin {"pull_query", "pull_close"} =>
        \A k \in 1..Len(conns) : conns[k] = "closed"

\* C25: on the days 1-5 the archive date of the previous month run is the day
\* right before the end date of its window and lies in the window [start_date,
\* end_date): 31 December of the year before in January, 29 February in March
\* of a leap year and 28 February otherwise.
C25_ArchiveDateInWindow ==
    \A i \in RunIndices :
        runs[i].stage = "A" =>
            LET sd == strptime(Val(runs[i].start_date))
                ed == strptime(Val(runs[i].end_date))
                ad == strptime(Val(runs[i].archive_date))
                t == main.now
            IN  /\ sd # None /\ ed # None /\ ad # None
                /\ Ordinal(Val(ad)) = Ordinal(Val(ed)) - 1
                /\ Ordinal(Val(sd)) <= Ordinal(Val(ad))
                /\ Ordinal(Val(ad)) < Ordinal(Val(ed))
                /\ t.month = 1 => Val(ad) = datetime(t.year - 1, 12, 31)
                /\ t.month = 3 =>
                       Val(ad) = datetime(t.year, 2, IF t.year % 4 = 0 THEN 29 ELSE 28)

C25_Witness ==
    /\ Len(runs) >= 1 /\ runs[1].stage = "A" /\ main.now.day = 5
    /\ runs[1].start_date = Str("2024-02-01") /\ runs[1].end_date = Str("2024-03-01")
    /\ runs[1].archive_date = Str("2024-02-29")

\* the open() of an extract file of this execution
ExtractWrites ==
    { i \in 1..Len(writes) :
        /\ writes[i].execution = executions
        /\ StartsWith(writes[i].path, "../../data/raw_pulls/") }

\* C26: every value of one execution of main that depends on the date comes
\* from one date, the one whose day decides on the previous month run: the
\* archive date, the start and the end date (that date + 1 day) of the current
\* month run and the date in the names of the extract files, also when
\* midnight passes during the execution.
C26_SingleDate ==
    IsPipeline =>
        /\ main.prev_month_last_day # None =>
               main.prev_month_last_day = Str(get_previous_month_last_day(main.now))
        /\ \A i \in RunIndices :
               /\ runs[i].today_str # None => runs[i].today_str = main.today_str
               /\ (runs[i].stage = "B" /\ runs[i].window # None
                    /\ ~Truthy(args_start_date)) =>
                       IsMonthToDate(Val(runs[i].window), main.now)
        /\ \A i \in ExtractWrites : Str(writes[i].today_str) = main.today_str

\* C27: the previous month window of main and the one of pull_data_main are
\* the same: on a day 1-5, what pull_data_main resolves without start and end
\* date is the window main computes for that day, and what main hands to the
\* previous month run is what pull_data_main would resolve itself.
C27_PreviousMonthWindowsAgree ==
    /\ (stage = "cli" /\ pc = "pull_connect" /\ ~Truthy(args_start_date)
          /\ pull.now.day <= 5) =>
           /\ pull.start_date = Str(PrevMonthRange(pull.now).prev_month_start)
           /\ pull.end_date = Str(PrevMonthRange(pull.now).prev_month_end)
    /\ \A i \in RunIndices :
           runs[i].stage = "A" =>
               /\ [start_date |-> runs[i].start_date, end_date |-> runs[i].end_date]
                      = ResolveWindow(None, None, main.now)
               /\ runs[i].window # None =>
                      Val(runs[i].window) = ResolveWindow(None, None, main.now)

C27_Witness ==
    /\ IsPipeline /\ main.now = datetime(2025, 1, 3)
    /\ Len(runs) >= 1 /\ runs[1].stage = "A"
    /\ runs[1].window = << [start_date |-> Str("2024-12-01"), end_date |-> Str("2025-01-01")] >>
    /\ ResolveWindow(None, None, main.now) = Val(runs[1].window)

====
